---- MODULE Spec2Model ----
(***************************************************************************)
(* A model of the property list of include/netcdf_proplist.h: an ordered   *)
(* list of (key, value) properties of three sorts (NCP_CONST, NCP_BYTES,   *)
(* NCP_COMPLEX) with insertion, lookup, indexed access, deep-copy cloning  *)
(* and reclamation.                                                        *)
(*                                                                         *)
(* The heap is modelled by cells with an identity (an address that is     *)
(* never handed out twice), their contents and the number of times each   *)
(* was released; list objects are modelled by their three fields.         *)
(***************************************************************************)
EXTENDS Integers, Sequences, FiniteSets, TLC

(***************************************************************************)
(* Program constants.                                                      *)
(***************************************************************************)
NCPROPSMAXKEY == 31
NCP_CONST == 0
NCP_BYTES == 2
NCP_COMPLEX == 3
MINPROPS == 2
EXPANDFACTOR == 1
\* The netCDF status codes used by the list (values of netcdf.h).
NC_NOERR == 0
NC_EINVAL == -36
NC_ENOMEM == -61
NC_ENOOBJECT == -141
\* The null pointer, and the null NCPtypefcn.
NULL == 0
\* The one non-null type function the callers of the model pass.
TYPEFCN == 1
\* The content of memory that realloc() returned and nothing wrote yet.
Indeterminate == -1

(***************************************************************************)
(* Bounds of the model.                                                    *)
(***************************************************************************)
\* Add* is called on a list holding fewer than MaxCount properties.
MaxCount == 3
\* Number of heap cells (buffers and complex objects) that can be allocated.
MaxAddr == 3
\* A cell is released at most MaxRel times (2 = a double free).
MaxRel == 2

Lists == {1, 2}
\* A list handle is a list object or the null pointer.
Handles == Lists \cup {NULL}
\* The sizes an indeterminate size field may turn out to hold.
Sizes == {0, 2}
Addrs == 1..MaxAddr
K1 == <<107>>
K2 == <<120>>
\* A key of NCPROPSMAXKEY+2 characters.
KL1 == [i \in 1..(NCPROPSMAXKEY + 2) |-> IF i > NCPROPSMAXKEY THEN 97 ELSE 112]
\* Its first NCPROPSMAXKEY characters.
KP == [i \in 1..NCPROPSMAXKEY |-> 112]
\* The keys properties are inserted under, and the keys looked up.
Keys == {K1, KL1}
LookupKeys == {K1, K2, KL1, KP}
ConstValues == {100, 101}
\* A constant that is a pointer the list does not own: the address of cell 1.
PointerConst == CHOOSE a \in Addrs : \A b \in Addrs : a <= b
\* Contents of the buffers handed to ncproplistaddbytes.
Buffers == {<<7>>}
\* Strings handed to ncproplistaddstring (without the nul).
Strings == {<<104>>}
\* What a type function returns: < 0 is an error, >= 0 is success.
FcnResults == {-1, 0, 1}
\* A byte read from beyond the end of a buffer.
PadBytes == {0, 255}

VARIABLES
    plist,    \* the NCproplist objects: st, alloc, count, properties
    heap,     \* the buffers and complex objects: kind, data, rel
    ret,      \* the last call: its arguments, status and outputs
    aborted   \* the process died (assertion failure, invalid access)

vars == <<plist, heap, ret, aborted>>

(***************************************************************************)
(* Data.                                                                   *)
(***************************************************************************)
\* calloc'ed NCPproperty.
ZeroProp ==
    [key |-> <<>>, sort |-> NCP_CONST, value |-> 0, size |-> 0,
     userdata |-> 0, typefcn |-> NULL]

\* An NCPproperty in memory that realloc() added: size, userdata and
\* typefcn are indeterminate until written (key, sort and value are written
\* by every insertion before the property is counted).
IndetProp ==
    [key |-> <<>>, sort |-> NCP_CONST, value |-> 0, size |-> Indeterminate,
     userdata |-> Indeterminate, typefcn |-> Indeterminate]

\* No list object at this handle yet.
NoList == [st |-> "none", alloc |-> 0, count |-> 0, properties |-> <<>>]
\* A list object after free(plist).
FreedList == [st |-> "freed", alloc |-> 0, count |-> 0, properties |-> <<>>]
\* A zeroed NCproplist object; properties = <<>> is the NULL pointer.
ZeroList == [st |-> "live", alloc |-> 0, count |-> 0, properties |-> <<>>]

NoCell == [kind |-> "unalloc", data |-> <<>>, rel |-> 0]

NoRet ==
    [op |-> "none", l |-> 0, a |-> 0, key |-> <<>>, value |-> 0, size |-> 0,
     stat |-> 0, okey |-> <<>>, wrote |-> FALSE]

Min(S) == CHOOSE x \in S : \A y \in S : x <= y

\* malloc: the address of a cell never allocated before.
Fresh(hp) == Min({a \in Addrs : hp[a].kind = "unalloc"})
NFree(hp) == Cardinality({a \in Addrs : hp[a].kind = "unalloc"})

\* A release that counts for two: what a value released twice looks like.
ReleaseTwice(hp, ptr) == [hp EXCEPT ![ptr].rel = @ + 2]

\* free(ptr), and a type function's NCP_RECLAIM that succeeds.
Release(hp, ptr) == [hp EXCEPT ![ptr].rel = @ + 1]

Owned(prop) ==
    /\ prop.sort \in {NCP_BYTES, NCP_COMPLEX}
    /\ prop.value # NULL

\* The addresses the counted properties of a list own.
OwnedBy(pl) ==
    {pl.properties[i].value : i \in {j \in 1..pl.count : Owned(pl.properties[j])}}

\* A counted property points at a released cell.
Dangling(pl, hp) == \E a \in OwnedBy(pl) : hp[a].rel > 0

(***************************************************************************)
(* The functions of the list.                                              *)
(***************************************************************************)
hasspace(pl, nelems) == pl.alloc >= pl.count + nelems

\* No truncation: the whole key is stored.
TruncateNone(key) == key

\* A truncation that keeps one character less than NCPROPSMAXKEY.
TruncateShort(key) ==
    IF Len(key) > NCPROPSMAXKEY - 1
    THEN SubSeq(key, 1, NCPROPSMAXKEY - 1) ELSE key

\* keylen = strlen(key); if(keylen > NCPROPSMAXKEY) keylen = NCPROPSMAXKEY;
\* memcpy(prop->pair.key,key,keylen); prop->pair.key[keylen] = '\0';
Truncate(key) ==
    IF Len(key) > NCPROPSMAXKEY THEN SubSeq(key, 1, NCPROPSMAXKEY) ELSE key

\* A growth that records one property less than it made room for.
extendplistshort(pl, nprops, ok) ==
    LET newsize == pl.count + nprops
    IN  IF pl.alloc >= newsize \/ nprops = 0
        THEN [stat |-> NC_NOERR, pl |-> pl]
        ELSE IF ~ok
        THEN [stat |-> NC_ENOMEM, pl |-> pl]
        ELSE [stat |-> NC_NOERR,
              pl |-> [pl EXCEPT
                        !.properties =
                            [i \in 1..newsize |->
                                IF i <= Len(pl.properties)
                                THEN pl.properties[i] ELSE IndetProp],
                        !.alloc = newsize - 1]]

\* A growth that loses the storage when realloc() fails.
extendplistlossy(pl, nprops, ok) ==
    LET newsize == pl.count + nprops
    IN  IF pl.alloc >= newsize \/ nprops = 0
        THEN [stat |-> NC_NOERR, pl |-> pl]
        ELSE IF ~ok
        THEN [stat |-> NC_ENOMEM,
              pl |-> [pl EXCEPT !.properties = <<>>, !.count = 0]]
        ELSE [stat |-> NC_NOERR,
              pl |-> [pl EXCEPT
                        !.properties =
                            [i \in 1..newsize |->
                                IF i <= Len(pl.properties)
                                THEN pl.properties[i] ELSE IndetProp],
                        !.alloc = newsize]]

\* extendplist: ok is whether realloc() succeeds.
extendplist(pl, nprops, ok) ==
    LET newsize == pl.count + nprops
    IN  IF pl.alloc >= newsize \/ nprops = 0
        THEN [stat |-> NC_NOERR, pl |-> pl]
        ELSE IF ~ok
        THEN [stat |-> NC_ENOMEM, pl |-> pl]
        ELSE [stat |-> NC_NOERR,
              pl |-> [pl EXCEPT
                        !.properties =
                            [i \in 1..newsize |->
                                IF i <= Len(pl.properties)
                                THEN pl.properties[i] ELSE IndetProp],
                        !.alloc = newsize]]

\* The value read from a field nothing wrote: g, whatever it is.
Read(field, g) == IF field = Indeterminate THEN g ELSE field

\* The part the three insertions share: make room, then take the next slot.
\* [stat, pl, crash]: crash is a write through properties = NULL.
Room(pl, ok) ==
    IF hasspace(pl, 1)
    THEN [stat |-> NC_NOERR, pl |-> pl]
    ELSE extendplist(pl, (pl.count + 1) * EXPANDFACTOR, ok)

\* ncproplistadd; the size of the slot is left as it was (g if indeterminate).
ncproplistadd(pl, key, value, ok, g) ==
    LET r == Room(pl, ok)
        p == r.pl
        i == p.count + 1
    IN  IF r.stat # NC_NOERR
        THEN [stat |-> r.stat, pl |-> p, crash |-> FALSE]
        ELSE IF p.properties = <<>>
        THEN [stat |-> NC_NOERR, pl |-> pl, crash |-> TRUE]
        ELSE [stat |-> NC_NOERR,
              pl |-> [p EXCEPT
                        !.properties[i] =
                            [@ EXCEPT !.key = Truncate(key),
                                      !.value = value,
                                      !.sort = NCP_CONST,
                                      !.size = Read(@, g)],
                        !.count = @ + 1],
              crash |-> FALSE]

\* ncproplistaddbytes; NC_UNUSED(size): the size argument is not stored.
ncproplistaddbytes(pl, key, value, size, ok, g) ==
    LET r == Room(pl, ok)
        p == r.pl
        i == p.count + 1
    IN  IF r.stat # NC_NOERR
        THEN [stat |-> r.stat, pl |-> p, crash |-> FALSE]
        ELSE IF p.properties = <<>>
        THEN [stat |-> NC_NOERR, pl |-> pl, crash |-> TRUE]
        ELSE [stat |-> NC_NOERR,
              pl |-> [p EXCEPT
                        !.properties[i] =
                            [@ EXCEPT !.key = Truncate(key),
                                      !.value = value,
                                      !.sort = NCP_BYTES,
                                      !.size = Read(@, g)],
                        !.count = @ + 1],
              crash |-> FALSE]

\* ncproplistaddx.
ncproplistaddx(pl, key, value, size, userdata, fcn, ok) ==
    LET r == Room(pl, ok)
        p == r.pl
        i == p.count + 1
    IN  IF r.stat # NC_NOERR
        THEN [stat |-> r.stat, pl |-> p, crash |-> FALSE]
        ELSE IF p.properties = <<>>
        THEN [stat |-> NC_NOERR, pl |-> pl, crash |-> TRUE]
        ELSE [stat |-> NC_NOERR,
              pl |-> [p EXCEPT
                        !.properties[i] =
                            [@ EXCEPT !.key = Truncate(key),
                                      !.value = value,
                                      !.size = size,
                                      !.typefcn = fcn,
                                      !.userdata = userdata,
                                      !.sort = NCP_COMPLEX],
                        !.count = @ + 1],
              crash |-> FALSE]

\* The reclamation loop of ncproplistclear from property i on; oc[i] is what
\* the type function of property i returns. [stat, completed, heap, assert,
\* ub]: completed is FALSE after "goto done", assert is the failed
\* assert(prop->typefcn != NULL), ub is the release of a released cell.
RECURSIVE clearloop(_, _, _, _, _, _)
clearloop(i, pl, hp, stat, oc, ub) ==
    IF i > pl.count
    THEN [stat |-> stat, completed |-> TRUE, heap |-> hp,
          assert |-> FALSE, ub |-> ub]
    ELSE LET prop == pl.properties[i]
             ptr == prop.value
         IN  CASE prop.sort = NCP_CONST ->
                    clearloop(i + 1, pl, hp, stat, oc, ub)
               [] prop.sort = NCP_BYTES ->
                    IF ptr # NULL
                    THEN clearloop(i + 1, pl, Release(hp, ptr), stat, oc,
                                   ub \/ hp[ptr].rel > 0)
                    ELSE clearloop(i + 1, pl, hp, stat, oc, ub)
               [] prop.sort = NCP_COMPLEX ->
                    IF prop.typefcn = NULL
                    THEN [stat |-> stat, completed |-> FALSE, heap |-> hp,
                          assert |-> TRUE, ub |-> ub]
                    ELSE IF oc[i] < 0
                    THEN [stat |-> oc[i], completed |-> FALSE, heap |-> hp,
                          assert |-> FALSE, ub |-> ub]
                    ELSE clearloop(i + 1, pl, Release(hp, ptr), oc[i], oc,
                                   ub \/ hp[ptr].rel > 0)

\* ncproplistclear of a non-null list: [stat, pl, heap, assert, ub].
ncproplistclear(pl, hp, oc) ==
    LET r == IF pl.properties # <<>>
             THEN clearloop(1, pl, hp, 0, oc, FALSE)
             ELSE [stat |-> 0, completed |-> TRUE, heap |-> hp,
                   assert |-> FALSE, ub |-> FALSE]
    IN  [stat |-> r.stat,
         pl |-> IF r.completed THEN [pl EXCEPT !.count = 0] ELSE pl,
         heap |-> r.heap, assert |-> r.assert, ub |-> r.ub]

\* ncproplistfree of a non-null list: [stat, pl, heap, assert, ub].
ncproplistfree(pl, hp, oc) ==
    LET r == ncproplistclear(pl, hp, oc)
    IN  IF r.stat < 0 \/ r.assert
        THEN r
        ELSE [r EXCEPT !.pl = FreedList]

\* An initialisation that empties a list in use by resetting its count,
\* without reclaiming what it holds.
ncproplistinitnoclear(pl, hp, okc, oc) ==
    IF pl.alloc = 0
    THEN [stat |-> 0,
          pl |-> [pl EXCEPT
                    !.alloc = MINPROPS,
                    !.properties =
                        IF okc THEN [i \in 1..MINPROPS |-> ZeroProp] ELSE <<>>,
                    !.count = 0],
          heap |-> hp, assert |-> FALSE, ub |-> FALSE]
    ELSE [stat |-> 0, pl |-> [pl EXCEPT !.count = 0], heap |-> hp,
          assert |-> FALSE, ub |-> FALSE]

\* ncproplistinit: okc is whether calloc() succeeds.
ncproplistinit(pl, hp, okc, oc) ==
    IF pl.alloc = 0
    THEN [stat |-> 0,
          pl |-> [pl EXCEPT
                    !.alloc = MINPROPS,
                    !.properties =
                        IF okc THEN [i \in 1..MINPROPS |-> ZeroProp] ELSE <<>>,
                    !.count = 0],
          heap |-> hp, assert |-> FALSE, ub |-> FALSE]
    ELSE ncproplistclear(pl, hp, oc)

\* A lookup that reports a miss as NC_EINVAL.
getloopeinval(i, pl, key) ==
    LET M == {j \in i..pl.count : pl.properties[j].key = key}
    IN  IF M = {}
        THEN [stat |-> NC_EINVAL, value |-> 0, size |-> 0]
        ELSE [stat |-> NC_NOERR, value |-> pl.properties[Min(M)].value,
              size |-> pl.properties[Min(M)].size]

\* ncproplistget of a non-null list and key: [stat, value, size].
RECURSIVE getloop(_, _, _)
getloop(i, pl, key) ==
    IF i > pl.count
    THEN [stat |-> NC_ENOOBJECT, value |-> 0, size |-> 0]
    ELSE IF pl.properties[i].key = key
    THEN [stat |-> NC_NOERR, value |-> pl.properties[i].value,
          size |-> pl.properties[i].size]
    ELSE getloop(i + 1, pl, key)

\* A lookup that returns the last property of the key instead of the first.
ncproplistgetlast(pl, key) ==
    LET M == {i \in 1..pl.count : pl.properties[i].key = key}
    IN  IF M = {}
        THEN [stat |-> NC_ENOOBJECT, value |-> 0, size |-> 0]
        ELSE LET m == CHOOSE i \in M : \A j \in M : j <= i
             IN  [stat |-> NC_NOERR, value |-> pl.properties[m].value,
                  size |-> pl.properties[m].size]

ncproplistget(pl, key) == getloop(1, pl, key)

\* An indexed access that admits the index count (i > count is refused).
ncproplistithloose(pl, i) ==
    IF i > pl.count
    THEN [stat |-> NC_EINVAL, wrote |-> FALSE, key |-> <<>>, value |-> 0,
          size |-> 0]
    ELSE IF i = pl.count
    THEN [stat |-> NC_NOERR, wrote |-> TRUE, key |-> <<>>, value |-> 0,
          size |-> 0]
    ELSE [stat |-> NC_NOERR, wrote |-> TRUE,
          key |-> pl.properties[i + 1].key,
          value |-> pl.properties[i + 1].value,
          size |-> pl.properties[i + 1].size]

\* ncproplistith of a non-null list; i counts from 0 as in the code.
ncproplistith(pl, i) ==
    IF i >= pl.count
    THEN [stat |-> NC_EINVAL, wrote |-> FALSE, key |-> <<>>, value |-> 0,
          size |-> 0]
    ELSE [stat |-> NC_NOERR, wrote |-> TRUE,
          key |-> pl.properties[i + 1].key,
          value |-> pl.properties[i + 1].value,
          size |-> pl.properties[i + 1].size]

\* A copy of a buffer that hands the bytes over: the source buffer is freed
\* once its bytes are in the new cell.
CopyBytesMove(hp, p, from, size, pad) ==
    LET data == hp[from].data
    IN  [hp EXCEPT ![p] =
            [kind |-> "bytes",
             data |-> [k \in 1..size |->
                         IF k <= Len(data) THEN data[k] ELSE pad],
             rel |-> 0],
                   ![from].rel = @ + 1]

\* malloc(size) then memcpy(p, from, size): the new cell holds the first
\* size bytes of the source buffer; a byte beyond its end reads as pad.
CopyBytes(hp, p, from, size, pad) ==
    LET data == hp[from].data
    IN  [hp EXCEPT ![p] =
            [kind |-> "bytes",
             data |-> [k \in 1..size |->
                         IF k <= Len(data) THEN data[k] ELSE pad],
             rel |-> 0]]

\* A type function's NCP_COPY that succeeds: a new object at q.
CopyComplex(hp, q) ==
    [hp EXCEPT ![q] = [kind |-> "complex", data |-> <<>>, rel |-> 0]]

\* The Bytes fixup of ncproplistclone: cp->pair.value = (uintptr_t)p.
\* A copy of a Bytes property that keeps the pointer of the source.
CloneBytesShared(cp, p) == cp

CloneBytesFixup(cp, p) == [cp EXCEPT !.value = p]

\* A copy loop that records the failure of a type function and goes on to
\* the next property.
RECURSIVE cloneloopon(_, _, _, _, _, _, _, _)
cloneloopon(i, src, cl, hp, stat, oc, pad, ub) ==
    IF i > src.count
    THEN [stat |-> stat, completed |-> stat >= 0, clone |-> cl, heap |-> hp,
          crash |-> FALSE, ub |-> ub]
    ELSE IF cl.properties = <<>>
    THEN [stat |-> stat, completed |-> FALSE, clone |-> cl, heap |-> hp,
          crash |-> TRUE, ub |-> ub]
    ELSE
    LET sp == src.properties[i]
        cl1 == [cl EXCEPT !.properties[i] = sp]
    IN  CASE sp.sort = NCP_CONST ->
                cloneloopon(i + 1, src, cl1, hp, stat, oc, pad, ub)
          [] sp.sort = NCP_BYTES ->
                LET p == IF oc[i] < 0 THEN NULL ELSE Fresh(hp)
                IN  IF sp.size > 0 /\ (p = NULL \/ sp.value = NULL)
                    THEN [stat |-> stat, completed |-> FALSE, clone |-> cl1,
                          heap |-> hp, crash |-> TRUE, ub |-> ub]
                    ELSE cloneloopon(i + 1, src,
                            [cl1 EXCEPT !.properties[i].value = p],
                            IF p = NULL THEN hp
                            ELSE IF sp.value = NULL
                            THEN [hp EXCEPT ![p] = [kind |-> "bytes",
                                                   data |-> <<>>, rel |-> 0]]
                            ELSE CopyBytes(hp, p, sp.value, sp.size, pad),
                            stat, oc, pad,
                            ub \/ (sp.value # NULL
                                   /\ sp.size > Len(hp[sp.value].data)))
          [] sp.sort = NCP_COMPLEX ->
                IF sp.typefcn = NULL
                THEN [stat |-> stat, completed |-> FALSE, clone |-> cl1,
                      heap |-> hp, crash |-> TRUE, ub |-> ub]
                ELSE IF oc[i] < 0
                THEN cloneloopon(i + 1, src, cl1, hp, oc[i], oc, pad, ub)
                ELSE LET q == Fresh(hp)
                     IN  cloneloopon(i + 1, src,
                            [cl1 EXCEPT !.properties[i].value = q],
                            CopyComplex(hp, q),
                            IF stat < 0 THEN stat ELSE oc[i], oc, pad, ub)

\* The copy loop of ncproplistclone from property i on. oc[i] < 0 makes the
\* malloc() of a Bytes property return NULL, and is what the type function
\* of a Complex property returns. [stat, completed, clone, heap, crash, ub]:
\* crash is an access through NULL, ub a read beyond the end of a buffer.
RECURSIVE cloneloop(_, _, _, _, _, _, _, _)
cloneloop(i, src, cl, hp, stat, oc, pad, ub) ==
    IF i > src.count
    THEN [stat |-> stat, completed |-> TRUE, clone |-> cl, heap |-> hp,
          crash |-> FALSE, ub |-> ub]
    ELSE IF cl.properties = <<>>
    THEN [stat |-> stat, completed |-> FALSE, clone |-> cl, heap |-> hp,
          crash |-> TRUE, ub |-> ub]
    ELSE
    LET sp == src.properties[i]
        \* *cp = *sp
        cl1 == [cl EXCEPT !.properties[i] = sp]
    IN  CASE sp.sort = NCP_CONST ->
                cloneloop(i + 1, src, cl1, hp, stat, oc, pad, ub)
          [] sp.sort = NCP_BYTES ->
                LET p == IF oc[i] < 0 THEN NULL ELSE Fresh(hp)
                IN  IF sp.size > 0 /\ (p = NULL \/ sp.value = NULL)
                    THEN [stat |-> stat, completed |-> FALSE, clone |-> cl1,
                          heap |-> hp, crash |-> TRUE, ub |-> ub]
                    ELSE cloneloop(i + 1, src,
                            [cl1 EXCEPT !.properties[i] =
                                            CloneBytesFixup(@, p)],
                            IF p = NULL THEN hp
                            ELSE IF sp.value = NULL
                            THEN [hp EXCEPT ![p] = [kind |-> "bytes",
                                                   data |-> <<>>, rel |-> 0]]
                            ELSE CopyBytes(hp, p, sp.value, sp.size, pad),
                            stat, oc, pad,
                            ub \/ (sp.value # NULL
                                   /\ sp.size > Len(hp[sp.value].data)))
          [] sp.sort = NCP_COMPLEX ->
                IF sp.typefcn = NULL
                THEN [stat |-> stat, completed |-> FALSE, clone |-> cl1,
                      heap |-> hp, crash |-> TRUE, ub |-> ub]
                ELSE IF oc[i] < 0
                THEN [stat |-> oc[i], completed |-> FALSE, clone |-> cl1,
                      heap |-> hp, crash |-> FALSE, ub |-> ub]
                ELSE LET q == Fresh(hp)
                     IN  cloneloop(i + 1, src,
                            [cl1 EXCEPT !.properties[i].value = q],
                            CopyComplex(hp, q), oc[i], oc, pad, ub)

\* A clone that counts the properties of the source in the destination
\* whether or not the copy loop reached its end.
ncproplistclonecounted(src, clone, same, hp, okc, okr, oc1, oc2, pad) ==
    LET ini == ncproplistinit(clone, hp, okc, oc1)
        src1 == IF same THEN ini.pl ELSE src
        ext == extendplist(ini.pl, src1.count, okr)
        lp == cloneloop(1, src1, ext.pl, ini.heap, NC_NOERR, oc2, pad, ini.ub)
    IN  IF ini.assert \/ ini.stat # 0
        THEN [stat |-> ini.stat, clone |-> ini.pl, heap |-> ini.heap,
              assert |-> ini.assert, crash |-> FALSE, ub |-> ini.ub]
        ELSE IF ext.stat # 0
        THEN [stat |-> ext.stat, clone |-> ini.pl, heap |-> ini.heap,
              assert |-> FALSE, crash |-> FALSE, ub |-> ini.ub]
        ELSE [stat |-> lp.stat,
              clone |-> [lp.clone EXCEPT !.count = src1.count],
              heap |-> lp.heap, assert |-> FALSE, crash |-> lp.crash,
              ub |-> lp.ub]

\* ncproplistclone of non-null lists, sid and cid telling whether they are
\* the same object: [stat, clone, heap, assert, crash, ub]. okc, okr: whether
\* calloc() and realloc() succeed; oc1: what the type functions return to
\* the reclamation of the destination; oc2, pad: as for cloneloop.
ncproplistclone(src, clone, same, hp, okc, okr, oc1, oc2, pad) ==
    LET ini == ncproplistinit(clone, hp, okc, oc1)
        \* src and clone may be the same object
        src1 == IF same THEN ini.pl ELSE src
        ext == extendplist(ini.pl, src1.count, okr)
        lp == cloneloop(1, src1, ext.pl, ini.heap, NC_NOERR, oc2, pad, ini.ub)
    IN  IF ini.assert \/ ini.stat # 0
        THEN [stat |-> ini.stat, clone |-> ini.pl, heap |-> ini.heap,
              assert |-> ini.assert, crash |-> FALSE, ub |-> ini.ub]
        ELSE IF ext.stat # 0
        THEN [stat |-> ext.stat, clone |-> ini.pl, heap |-> ini.heap,
              assert |-> FALSE, crash |-> FALSE, ub |-> ini.ub]
        ELSE [stat |-> lp.stat,
              clone |-> IF lp.completed
                        THEN [lp.clone EXCEPT !.count = src1.count]
                        ELSE lp.clone,
              heap |-> lp.heap, assert |-> FALSE, crash |-> lp.crash,
              ub |-> lp.ub]

(***************************************************************************)
(* The calls a program makes. Each records itself in ret.                  *)
(***************************************************************************)
Call(op, l, a, key, value, size, stat, okey, wrote) ==
    [op |-> op, l |-> l, a |-> a, key |-> key, value |-> value,
     size |-> size, stat |-> stat, okey |-> okey, wrote |-> wrote]

\* A list the caller may still read and insert into: it exists, and no
\* reclamation of it has stopped half way.
Usable(h) ==
    /\ h \in Lists
    /\ plist[h].st = "live"
    /\ ~Dangling(plist[h], heap)

\* What the type functions may return to one reclamation of pl.
ReclaimResults(pl) ==
    {oc \in [1..pl.count -> FcnResults] :
        \A i \in 1..pl.count : pl.properties[i].sort # NCP_COMPLEX => oc[i] = 0}

\* What malloc() and the type functions may return to one clone of src.
CopyResults(src) ==
    {oc \in [1..src.count -> FcnResults] :
        \A i \in 1..src.count :
            /\ src.properties[i].sort = NCP_CONST => oc[i] = 0
            /\ src.properties[i].sort = NCP_BYTES => oc[i] \in {-1, 0}}

\* Cells one clone of src may allocate.
NeedCells(src) ==
    Cardinality({i \in 1..src.count : src.properties[i].sort # NCP_CONST})

RelBounded(hp) == \A a \in Addrs : hp[a].rel <= MaxRel

\* The call op on l does not return: the process dies.
Abort(op, l) ==
    /\ aborted' = TRUE
    /\ ret' = Call(op, l, 0, <<>>, 0, 0, 0, <<>>, FALSE)
    /\ UNCHANGED <<plist, heap>>

\* The caller declares a zeroed NCproplist object (a clone destination).
Zeroed(l) ==
    /\ ~aborted
    /\ plist[l].st = "none"
    /\ plist' = [plist EXCEPT ![l] = ZeroList]
    /\ ret' = Call("zeroed", l, 0, <<>>, 0, 0, 0, <<>>, FALSE)
    /\ UNCHANGED <<heap, aborted>>

\* ncproplistnew: okl, okp are whether the two calloc() succeed. With the
\* list object not allocated, ncproplistinit reads plist->alloc through NULL.
New(l, okl, okp) ==
    /\ ~aborted
    /\ plist[l].st = "none"
    /\ IF ~okl
       THEN Abort("new", l)
       ELSE LET r == ncproplistinit(ZeroList, heap, okp, <<>>)
            IN  /\ plist' = [plist EXCEPT ![l] = r.pl]
                /\ ret' = Call("new", l, 0, <<>>, 0, 0, r.stat, <<>>, FALSE)
                /\ UNCHANGED <<heap, aborted>>

AddConst(h, key, value, ok, g) ==
    /\ ~aborted
    /\ IF h = NULL
       THEN /\ ret' = Call("add", h, 0, key, value, 0, NC_NOERR, <<>>, FALSE)
            /\ UNCHANGED <<plist, heap, aborted>>
       ELSE /\ Usable(h)
            /\ plist[h].count < MaxCount
            /\ LET r == ncproplistadd(plist[h], key, value, ok, g)
               IN  IF r.crash
                   THEN Abort("add", h)
                   ELSE /\ plist' = [plist EXCEPT ![h] = r.pl]
                        /\ ret' = Call("add", h, 0, key, value, 0, r.stat,
                                       <<>>, FALSE)
                        /\ UNCHANGED <<heap, aborted>>

\* ncproplistaddbytes of a buffer the caller allocated, holding data.
AddBytes(h, key, data, ok, g) ==
    /\ ~aborted
    /\ IF h = NULL
       THEN /\ ret' = Call("addbytes", h, 0, key, NULL, 0, NC_NOERR, <<>>,
                           FALSE)
            /\ UNCHANGED <<plist, heap, aborted>>
       ELSE /\ Usable(h)
            /\ plist[h].count < MaxCount
            /\ NFree(heap) > 0
            /\ LET buf == Fresh(heap)
                   r == ncproplistaddbytes(plist[h], key, buf, Len(data), ok, g)
               IN  IF r.crash
                   THEN Abort("addbytes", h)
                   ELSE /\ plist' = [plist EXCEPT ![h] = r.pl]
                        /\ heap' = [heap EXCEPT ![buf] =
                                      [kind |-> "bytes", data |-> data,
                                       rel |-> 0]]
                        /\ ret' = Call("addbytes", h, 0, key, buf, Len(data),
                                       r.stat, <<>>, FALSE)
                        /\ UNCHANGED aborted

\* ncproplistaddstring: size = strlen(str)+1, or 0 for a null str; then
\* ncproplistaddbytes. isnull: str is NULL.
AddString(h, key, str, isnull, ok, g) ==
    /\ ~aborted
    /\ IF h = NULL
       THEN /\ ret' = Call("addstring", h, 0, key, NULL, 0, NC_NOERR, <<>>,
                           FALSE)
            /\ UNCHANGED <<plist, heap, aborted>>
       ELSE /\ Usable(h)
            /\ plist[h].count < MaxCount
            /\ NFree(heap) > 0
            /\ LET buf == IF isnull THEN NULL ELSE Fresh(heap)
                   size == IF isnull THEN 0 ELSE Len(str) + 1
                   r == ncproplistaddbytes(plist[h], key, buf, size, ok, g)
               IN  IF r.crash
                   THEN Abort("addstring", h)
                   ELSE /\ plist' = [plist EXCEPT ![h] = r.pl]
                        /\ heap' = IF isnull THEN heap
                                   ELSE [heap EXCEPT ![buf] =
                                           [kind |-> "bytes",
                                            data |-> Append(str, 0),
                                            rel |-> 0]]
                        /\ ret' = Call("addstring", h, 0, key, buf, size,
                                       r.stat, <<>>, FALSE)
                        /\ UNCHANGED aborted

\* ncproplistaddx of an object the caller allocated.
AddComplex(h, key, size, userdata, fcn, ok) ==
    /\ ~aborted
    /\ IF h = NULL
       THEN /\ ret' = Call("addx", h, 0, key, NULL, size, NC_NOERR, <<>>,
                           FALSE)
            /\ UNCHANGED <<plist, heap, aborted>>
       ELSE /\ Usable(h)
            /\ plist[h].count < MaxCount
            /\ NFree(heap) > 0
            /\ LET obj == Fresh(heap)
                   r == ncproplistaddx(plist[h], key, obj, size, userdata,
                                       fcn, ok)
               IN  IF r.crash
                   THEN Abort("addx", h)
                   ELSE /\ plist' = [plist EXCEPT ![h] = r.pl]
                        /\ heap' = CopyComplex(heap, obj)
                        /\ ret' = Call("addx", h, 0, key, obj, size, r.stat,
                                       <<>>, FALSE)
                        /\ UNCHANGED aborted

\* ncproplistfree.
Free(h, oc) ==
    /\ ~aborted
    /\ IF h = NULL
       THEN /\ ret' = Call("free", h, 0, <<>>, 0, 0, 0, <<>>, FALSE)
            /\ UNCHANGED <<plist, heap, aborted>>
       ELSE /\ plist[h].st = "live"
            /\ LET r == ncproplistfree(plist[h], heap, oc)
               IN  /\ RelBounded(r.heap)
                   /\ \/ /\ r.assert \/ r.ub
                         /\ Abort("free", h)
                      \/ /\ ~r.assert
                         /\ plist' = [plist EXCEPT ![h] = r.pl]
                         /\ heap' = r.heap
                         /\ ret' = Call("free", h, 0, <<>>, 0, 0, r.stat,
                                        <<>>, FALSE)
                         /\ UNCHANGED aborted

\* A clone that takes a null source or destination as the insertions take a
\* null list: it does nothing and returns NC_NOERR.
CloneNullNoerr(s, d, okc, okr, oc1, oc2, pad) ==
    /\ ~aborted
    /\ IF s = NULL \/ d = NULL
       THEN /\ ret' = Call("clone", d, s, <<>>, 0, 0, NC_NOERR, <<>>, FALSE)
            /\ UNCHANGED <<plist, heap, aborted>>
       ELSE /\ Usable(s)
            /\ plist[d].st = "live"
            /\ NFree(heap) >= NeedCells(plist[s])
            /\ LET r == ncproplistclone(plist[s], plist[d], s = d, heap,
                                        okc, okr, oc1, oc2, pad)
               IN  /\ RelBounded(r.heap)
                   /\ \/ /\ r.assert \/ r.crash \/ r.ub
                         /\ Abort("clone", d)
                      \/ /\ ~r.assert /\ ~r.crash
                         /\ plist' = [plist EXCEPT ![d] = r.clone]
                         /\ heap' = r.heap
                         /\ ret' = Call("clone", d, s, <<>>, 0, 0, r.stat,
                                        <<>>, FALSE)
                         /\ UNCHANGED aborted

\* ncproplistclone(src, clone).
Clone(s, d, okc, okr, oc1, oc2, pad) ==
    /\ ~aborted
    /\ IF s = NULL \/ d = NULL
       THEN /\ ret' = Call("clone", d, s, <<>>, 0, 0, NC_EINVAL, <<>>, FALSE)
            /\ UNCHANGED <<plist, heap, aborted>>
       ELSE /\ Usable(s)
            /\ plist[d].st = "live"
            /\ NFree(heap) >= NeedCells(plist[s])
            /\ LET r == ncproplistclone(plist[s], plist[d], s = d, heap,
                                        okc, okr, oc1, oc2, pad)
               IN  /\ RelBounded(r.heap)
                   /\ \/ /\ r.assert \/ r.crash \/ r.ub
                         /\ Abort("clone", d)
                      \/ /\ ~r.assert /\ ~r.crash
                         /\ plist' = [plist EXCEPT ![d] = r.clone]
                         /\ heap' = r.heap
                         /\ ret' = Call("clone", d, s, <<>>, 0, 0, r.stat,
                                        <<>>, FALSE)
                         /\ UNCHANGED aborted

\* ncproplistget with non-null output pointers.
Get(h, key) ==
    /\ ~aborted
    /\ IF h = NULL
       THEN /\ ret' = Call("get", h, 0, key, 0, 0, NC_ENOOBJECT, <<>>, FALSE)
            /\ UNCHANGED <<plist, heap, aborted>>
       ELSE /\ Usable(h)
            /\ LET r == ncproplistget(plist[h], key)
               IN  ret' = Call("get", h, 0, key, r.value, r.size, r.stat,
                               <<>>, TRUE)
            /\ UNCHANGED <<plist, heap, aborted>>

\* ncproplistith with non-null output pointers.
Ith(h, i) ==
    /\ ~aborted
    /\ IF h = NULL
       THEN /\ ret' = Call("ith", h, i, <<>>, 0, 0, NC_NOERR, <<>>, FALSE)
            /\ UNCHANGED <<plist, heap, aborted>>
       ELSE /\ Usable(h)
            /\ LET r == ncproplistith(plist[h], i)
               IN  ret' = Call("ith", h, i, <<>>, r.value, r.size, r.stat,
                               r.key, r.wrote)
            /\ UNCHANGED <<plist, heap, aborted>>

(***************************************************************************)
(* What the environment decides, where the call asks it.                   *)
(***************************************************************************)
\* realloc() of an insertion: asked only when the list is full.
ReallocResults(pl) == IF hasspace(pl, 1) THEN {TRUE} ELSE BOOLEAN

\* What the size field of the slot an insertion takes may hold.
SlotSizes(pl) ==
    IF /\ hasspace(pl, 1)
       /\ pl.properties # <<>>
       /\ pl.properties[pl.count + 1].size # Indeterminate
    THEN {0} ELSE Sizes

\* calloc() of ncproplistinit: asked only for a zeroed list object.
CallocResults(pl) == IF pl.alloc = 0 THEN BOOLEAN ELSE {TRUE}

\* realloc() of a clone of src into pl: asked only when pl is too small.
CloneReallocResults(src, pl) ==
    IF pl.alloc >= src.count /\ pl.alloc # 0 THEN {TRUE} ELSE BOOLEAN

\* The bytes beyond the end of a buffer: read only where a Bytes property
\* records more bytes than its buffer holds.
PadResults(src, hp) ==
    IF \E i \in 1..src.count :
          /\ src.properties[i].sort = NCP_BYTES
          /\ src.properties[i].value # NULL
          /\ src.properties[i].size > Len(hp[src.properties[i].value].data)
    THEN PadBytes ELSE {0}

Init ==
    /\ plist = [l \in Lists |-> NoList]
    /\ heap = [a \in Addrs |-> NoCell]
    /\ ret = NoRet
    /\ aborted = FALSE

(***************************************************************************)
(* Spec: the life of two lists. List 1 is created and filled under one     *)
(* key, list 2 is a zeroed or created list that list 1 is cloned into, and *)
(* both are freed. The type functions and the allocator answer as they     *)
(* like.                                                                   *)
(***************************************************************************)
Next ==
    \/ Zeroed(2)
    \/ \E l \in Lists, okl, okp \in BOOLEAN : New(l, okl, okp)
    \/ \E ok \in ReallocResults(plist[1]), g \in SlotSizes(plist[1]) :
            AddConst(1, K1, PointerConst, ok, g)
    \/ \E data \in Buffers, ok \in ReallocResults(plist[1]),
          g \in SlotSizes(plist[1]) :
            AddBytes(1, K1, data, ok, g)
    \/ \E ok \in ReallocResults(plist[1]), g \in SlotSizes(plist[1]) :
            AddString(1, K1, <<>>, TRUE, ok, g)
    \/ \E ok \in ReallocResults(plist[1]) :
            AddComplex(1, K1, 2, 7, TYPEFCN, ok)
    \/ \E h \in Lists : \E oc \in ReclaimResults(plist[h]) : Free(h, oc)
    \/ \E okc \in CallocResults(plist[2]),
          okr \in CloneReallocResults(plist[1], plist[2]),
          pad \in PadResults(plist[1], heap),
          oc1 \in ReclaimResults(plist[2]),
          oc2 \in CopyResults(plist[1]) :
            Clone(1, 2, okc, okr, oc1, oc2, pad)

Spec == Init /\ [][Next]_vars

(***************************************************************************)
(* SpecQuery: one list is created, filled under short and long keys with   *)
(* properties of every sort, looked up by key and by index, and freed by   *)
(* type functions that return 0.                                           *)
(***************************************************************************)
NextQuery ==
    \/ \E okl, okp \in BOOLEAN : New(1, okl, okp)
    \/ \E key \in Keys, value \in ConstValues,
          ok \in ReallocResults(plist[1]), g \in SlotSizes(plist[1]) :
            AddConst(1, key, value, ok, g)
    \/ \E key \in Keys, data \in Buffers,
          ok \in ReallocResults(plist[1]), g \in SlotSizes(plist[1]) :
            AddBytes(1, key, data, ok, g)
    \/ \E key \in Keys, str \in Strings,
          ok \in ReallocResults(plist[1]), g \in SlotSizes(plist[1]) :
            AddString(1, key, str, FALSE, ok, g)
    \/ \E key \in Keys, ok \in ReallocResults(plist[1]) :
            AddComplex(1, key, 2, 7, TYPEFCN, ok)
    \/ \E key \in LookupKeys : Get(1, key)
    \/ \E i \in 0..MaxCount : Ith(1, i)
    \/ Free(1, [i \in 1..plist[1].count |-> 0])

SpecQuery == Init /\ [][NextQuery]_vars

(***************************************************************************)
(* Properties.                                                             *)
(***************************************************************************)
Prop(l, i) == plist[l].properties[i]

\* The addresses of the non-null Bytes properties of a list.
BytesOf(pl) ==
    {pl.properties[i].value :
        i \in {j \in 1..pl.count : /\ pl.properties[j].sort = NCP_BYTES
                                   /\ pl.properties[j].value # NULL}}

\* C1: one ncproplistfree that succeeds on a list none of whose values was
\* released before releases each value the list owns (non-null Bytes
\* buffer, Complex value) exactly once and releases nothing else, in
\* particular not the cell a Const value points at.
C1_FreeReleasesEachOnce ==
    [][\A l \in Lists :
          ( /\ plist[l].st = "live"
            /\ plist'[l].st = "freed"
            /\ ~Dangling(plist[l], heap) )
          => \A a \in Addrs :
                heap'[a].rel =
                    heap[a].rel + (IF a \in OwnedBy(plist[l]) THEN 1 ELSE 0)
      ]_vars

\* A list holding a Const (pointing at cell 1), a Bytes and a Complex
\* property was freed: the Bytes and Complex cells are released once.
C1_Witness ==
    /\ ret.op = "free" /\ ret.l = 1 /\ ret.stat >= 0 /\ ~aborted
    /\ plist[1].st = "freed"
    /\ plist[2].st = "none"
    /\ heap[1].kind = "bytes" /\ heap[1].rel = 1
    /\ heap[2].kind = "complex" /\ heap[2].rel = 1
    /\ heap[3].kind = "unalloc"

\* C2 (as claimed): when ncproplistclone fails, every cell it allocated for
\* the destination has been released when it returns.
C2_CloneFailureReleasesCopies ==
    [][( /\ ret'.op = "clone" /\ ~aborted' /\ ret'.stat < 0 )
       => \A a \in Addrs :
            (heap[a].kind = "unalloc" /\ heap'[a].kind # "unalloc")
            => heap'[a].rel >= 1
      ]_vars

\* C3 (as claimed): a ncproplistfree that returns an error has still freed
\* every non-null Bytes buffer of the list, also those after the property
\* whose type function failed.
C3_ReclaimIsBestEffort ==
    [][\A l \in Lists :
          ( /\ ret'.op = "free" /\ ret'.l = l /\ ~aborted' /\ ret'.stat < 0
            /\ plist[l].st = "live" )
          => \A a \in BytesOf(plist[l]) : heap'[a].rel = heap[a].rel + 1
      ]_vars

\* C4 (as claimed): after ncproplistfree of a list returned, whatever it
\* returned, the list's storage and the list object are freed.
C4_FreeAlwaysFreesStorage ==
    (ret.op = "free" /\ ret.l \in Lists /\ ~aborted)
    => plist[ret.l].st = "freed"

\* C5 (as claimed): after the reclamation pass of ncproplistfree the count
\* of the list is 0, whatever the type functions returned.
C5_ClearResetsCount ==
    (ret.op = "free" /\ ret.l \in Lists /\ ~aborted)
    => plist[ret.l].count = 0

\* C6: no two counted Bytes properties, of the same list or of two lists,
\* point at the same buffer; so a clone shares no buffer with its source,
\* and a call on one list leaves the buffers of the other list as they were.
C6_CloneIndependence ==
    /\ [](\A l1, l2 \in Lists :
            \A i \in 1..plist[l1].count, j \in 1..plist[l2].count :
                ( /\ <<l1, i>> # <<l2, j>>
                  /\ Prop(l1, i).sort = NCP_BYTES
                  /\ Prop(l2, j).sort = NCP_BYTES
                  /\ Prop(l1, i).value # NULL )
                => Prop(l1, i).value # Prop(l2, j).value)
    /\ [][\A l \in Lists :
            (plist[l].st = "live" /\ ret'.l # l)
            => \A a \in BytesOf(plist[l]) : heap'[a] = heap[a]
         ]_vars

\* A clone succeeded and source and destination both hold a Bytes property
\* with a buffer.
C6_Witness ==
    /\ ret.op = "clone" /\ ret.stat >= 0 /\ ~aborted
    /\ plist[2].count = plist[1].count
    /\ \E i \in 1..plist[1].count :
          /\ Prop(1, i).sort = NCP_BYTES /\ Prop(1, i).value # NULL
          /\ Prop(2, i).sort = NCP_BYTES /\ Prop(2, i).value # NULL

\* C7 (as claimed): after a clone that succeeded and copied every property,
\* the clone of a Bytes property that ncproplistaddbytes inserted with a
\* buffer of size bytes has a buffer of its own, of size bytes with the
\* same contents, and records that size.
C7_CloneCopiesSizeBytes ==
    ( /\ ret.op = "clone" /\ ret.stat >= 0 /\ ~aborted
      /\ plist[ret.l].count = plist[ret.a].count )
    => \A i \in 1..plist[ret.a].count :
          ( /\ Prop(ret.a, i).sort = NCP_BYTES
            /\ Prop(ret.a, i).value # NULL )
          => /\ Prop(ret.l, i).value # NULL
             /\ Prop(ret.l, i).value # Prop(ret.a, i).value
             /\ heap[Prop(ret.l, i).value].data
                    = heap[Prop(ret.a, i).value].data
             /\ Prop(ret.l, i).size = Len(heap[Prop(ret.a, i).value].data)

AddOps == {"add", "addbytes", "addstring", "addx"}

\* The first NCPROPSMAXKEY characters of a key, or all of a shorter key.
Stored(key) ==
    [i \in 1..(IF Len(key) < NCPROPSMAXKEY THEN Len(key) ELSE NCPROPSMAXKEY)
        |-> key[i]]

\* C8 (as claimed): ncproplistget of a key of at most NCPROPSMAXKEY
\* characters whose first property in the list is a Bytes property returns
\* NC_NOERR, the buffer of that property and the size the buffer was
\* inserted with (the length of the buffer; strlen+1 for a string).
C8_GetReturnsValueAndSize ==
    (ret.op = "get" /\ ret.l \in Lists /\ ~aborted
        /\ Len(ret.key) <= NCPROPSMAXKEY)
    => \A i \in 1..plist[ret.l].count :
          ( /\ Prop(ret.l, i).sort = NCP_BYTES
            /\ Prop(ret.l, i).value # NULL
            /\ Prop(ret.l, i).key = ret.key
            /\ \A j \in 1..(i - 1) : Prop(ret.l, j).key # ret.key )
          => /\ ret.stat = NC_NOERR
             /\ ret.value = Prop(ret.l, i).value
             /\ ret.size = Len(heap[Prop(ret.l, i).value].data)

\* C9: an insertion that returns NC_NOERR raises the count by one, leaves
\* what ncproplistith returns for every earlier index as it was, and makes
\* ncproplistith of the new last index return the first NCPROPSMAXKEY
\* characters of the key and the value that were inserted.
C9_AddAppends ==
    [][\A l \in Lists :
          ( /\ ret'.op \in AddOps /\ ret'.l = l /\ ret'.stat = NC_NOERR
            /\ ~aborted' )
          => /\ plist'[l].count = plist[l].count + 1
             /\ \A i \in 0..(plist[l].count - 1) :
                    /\ ncproplistith(plist'[l], i).stat = NC_NOERR
                    /\ ncproplistith(plist'[l], i) = ncproplistith(plist[l], i)
             /\ ncproplistith(plist'[l], plist[l].count).stat = NC_NOERR
             /\ ncproplistith(plist'[l], plist[l].count).key = Stored(ret'.key)
             /\ ncproplistith(plist'[l], plist[l].count).value = ret'.value
      ]_vars

\* A third property, of a long key, was inserted behind a Bytes and a
\* Complex property.
C9_Witness ==
    /\ ret.op = "add" /\ ret.stat = NC_NOERR /\ ~aborted
    /\ ret.key = KL1
    /\ plist[1].count = 3
    /\ Prop(1, 1).sort = NCP_BYTES
    /\ Prop(1, 2).sort = NCP_COMPLEX
    /\ Prop(1, 3).sort = NCP_CONST /\ Prop(1, 3).key = KP

\* C10: when the stored keys of several properties of the list equal the
\* key looked up, ncproplistget returns NC_NOERR and the value of the one
\* with the smallest index (the first inserted); and
\* ncproplistith of an index below the count returns the key and the value
\* of the property at that index, a later duplicate included.
C10_FirstMatchWins ==
    /\ (ret.op = "get" /\ ret.l \in Lists /\ ~aborted)
       => LET pl == plist[ret.l]
              M == {i \in 1..pl.count : pl.properties[i].key = ret.key}
          IN  M # {} => /\ ret.stat = NC_NOERR
                        /\ ret.value = pl.properties[Min(M)].value
    /\ (ret.op = "ith" /\ ret.l \in Lists /\ ~aborted
            /\ ret.a < plist[ret.l].count)
       => /\ ret.stat = NC_NOERR
          /\ ret.okey = Prop(ret.l, ret.a + 1).key
          /\ ret.value = Prop(ret.l, ret.a + 1).value

\* Two properties with different values share the key that was looked up.
C10_Witness ==
    /\ ret.op = "get" /\ ret.l = 1 /\ ~aborted
    /\ plist[1].count >= 2
    /\ Prop(1, 1).key = ret.key /\ Prop(1, 2).key = ret.key
    /\ Prop(1, 1).value # Prop(1, 2).value
    /\ ret.value = Prop(1, 1).value

\* C11 (as claimed): the key looked up is truncated like the key stored: on
\* a list of one property, ncproplistget of a key of any length whose first
\* NCPROPSMAXKEY characters are the stored key returns NC_NOERR and the
\* value of the property.
C11_GetTruncatesKey ==
    ( /\ ret.op = "get" /\ ret.l \in Lists /\ ~aborted
      /\ plist[ret.l].count = 1
      /\ Prop(ret.l, 1).key = Stored(ret.key) )
    => /\ ret.stat = NC_NOERR
       /\ ret.value = Prop(ret.l, 1).value

(***************************************************************************)
(* SpecKeys: one list is filled under two keys of NCPROPSMAXKEY+2          *)
(* characters that differ only behind character NCPROPSMAXKEY, and under a *)
(* short key, and looked up by the long keys and by their common prefix.   *)
(* A constant inserted tells by its value under which key it was inserted. *)
(***************************************************************************)
\* A second key of NCPROPSMAXKEY+2 characters with the first NCPROPSMAXKEY
\* characters of KL1.
KL2 == [i \in 1..(NCPROPSMAXKEY + 2) |-> IF i > NCPROPSMAXKEY THEN 98 ELSE 112]
LongKeys == {KL1, KL2}

\* The constant inserted under a key.
KeyValue(key) == IF key = KL1 THEN 100 ELSE IF key = KL2 THEN 101 ELSE 102

NextKeys ==
    \/ \E okp \in BOOLEAN : New(1, TRUE, okp)
    \/ \E key \in LongKeys \cup {K1},
          ok \in ReallocResults(plist[1]), g \in SlotSizes(plist[1]) :
            AddConst(1, key, KeyValue(key), ok, g)
    \/ \E data \in Buffers, ok \in ReallocResults(plist[1]),
          g \in SlotSizes(plist[1]) :
            AddBytes(1, KL1, data, ok, g)
    \/ \E ok \in ReallocResults(plist[1]) :
            AddComplex(1, KL2, 2, 7, TYPEFCN, ok)
    \/ \E key \in LongKeys \cup {KP, K1} : Get(1, key)

SpecKeys == Init /\ [][NextKeys]_vars

\* C12: the key an insertion stores is the first min(length, NCPROPSMAXKEY)
\* characters of the key passed; and ncproplistget of a key of at most
\* NCPROPSMAXKEY characters that is the stored key of some properties (so
\* of every property inserted under a longer key with that prefix) returns
\* NC_NOERR and the value of the first of them.
C12_PrefixCollision ==
    /\ [][\A l \in Lists :
            ( /\ ret'.op \in AddOps /\ ret'.l = l /\ ret'.stat = NC_NOERR
              /\ ~aborted' )
            => /\ plist'[l].count = plist[l].count + 1
               /\ plist'[l].properties[plist'[l].count].key
                      = Stored(ret'.key)
               /\ Len(plist'[l].properties[plist'[l].count].key)
                      = IF Len(ret'.key) < NCPROPSMAXKEY
                        THEN Len(ret'.key) ELSE NCPROPSMAXKEY
         ]_vars
    /\ []( ( /\ ret.op = "get" /\ ret.l \in Lists /\ ~aborted
             /\ Len(ret.key) <= NCPROPSMAXKEY )
           => LET pl == plist[ret.l]
                  M == {i \in 1..pl.count : pl.properties[i].key = ret.key}
              IN  M # {} => /\ ret.stat = NC_NOERR
                            /\ ret.value = pl.properties[Min(M)].value )

\* A constant was inserted under KL1, then one under KL2, and the lookup of
\* their common prefix returned the constant of KL1.
C12_Witness ==
    /\ ret.op = "get" /\ ret.l = 1 /\ ~aborted
    /\ ret.key = KP /\ ret.stat = NC_NOERR
    /\ plist[1].count >= 2
    /\ Prop(1, 1).sort = NCP_CONST /\ Prop(1, 1).value = KeyValue(KL1)
    /\ Prop(1, 2).sort = NCP_CONST /\ Prop(1, 2).value = KeyValue(KL2)
    /\ Prop(1, 1).key = KP /\ Prop(1, 2).key = KP
    /\ ret.value = KeyValue(KL1)

OwnedCells == UNION {OwnedBy(plist[l]) : l \in Lists}

\* C14: an insertion that does not return NC_NOERR found the list full,
\* returns NC_ENOMEM and leaves the list as it was (count, capacity and
\* properties), the value offered is owned by no list and nothing was
\* released; and no call ever releases a cell that no list owns, so the
\* value offered is not released by a later ncproplistfree.
C14_GrowthFailureLeavesList ==
    [][/\ \A l \in Lists :
            ( /\ ret'.op \in AddOps /\ ret'.l = l /\ ~aborted'
              /\ ret'.stat # NC_NOERR )
            => /\ ret'.stat = NC_ENOMEM
               /\ ~hasspace(plist[l], 1)
               /\ plist'[l] = plist[l]
               /\ \A a \in Addrs : heap'[a].rel = heap[a].rel
               /\ ret'.op # "add" => ret'.value \notin OwnedCells'
       /\ \A a \in Addrs :
            a \notin OwnedCells => heap'[a].rel = heap[a].rel
      ]_vars

\* The storage of a full list of two properties could not grow for a
\* buffer: the buffer is still the caller's.
C14_Witness ==
    /\ ret.op = "addbytes" /\ ret.l = 1 /\ ~aborted
    /\ ret.stat = NC_ENOMEM
    /\ plist[1].count = MINPROPS /\ plist[1].alloc = MINPROPS
    /\ heap[ret.value].kind = "bytes" /\ heap[ret.value].rel = 0
    /\ ret.value \notin OwnedCells

\* C15 (as claimed): when ncproplistnew returns, it returns no list, or a
\* list of count 0 with storage allocated for MINPROPS properties; a list
\* of non-zero capacity without storage is never returned.
C15_NewIsAllOrNothing ==
    (ret.op = "new" /\ ret.l \in Lists /\ ~aborted)
    => \/ plist[ret.l].st # "live"
       \/ /\ plist[ret.l].count = 0
          /\ plist[ret.l].alloc = MINPROPS
          /\ Len(plist[ret.l].properties) = MINPROPS

(***************************************************************************)
(* SpecNull: the calls of Spec on lists that could be allocated, and every *)
(* call also with a null list handle: the insertions, the two lookups and  *)
(* free with a null list, clone with a null source, destination or both.   *)
(***************************************************************************)
NextNull ==
    \/ \E l \in Lists : New(l, TRUE, TRUE)
    \/ \E ok \in ReallocResults(plist[1]), g \in SlotSizes(plist[1]) :
            AddConst(1, K1, PointerConst, ok, g)
    \/ \E data \in Buffers, ok \in ReallocResults(plist[1]),
          g \in SlotSizes(plist[1]) :
            AddBytes(1, K1, data, ok, g)
    \/ \E ok \in ReallocResults(plist[1]) :
            AddComplex(1, K1, 2, 7, TYPEFCN, ok)
    \/ \E h \in Lists : Free(h, [i \in 1..plist[h].count |-> 0])
    \/ \E okr \in CloneReallocResults(plist[1], plist[2]),
          pad \in PadResults(plist[1], heap),
          oc2 \in CopyResults(plist[1]) :
            Clone(1, 2, TRUE, okr, [i \in 1..plist[2].count |-> 0], oc2, pad)
    \/ \E i \in 0..1 : Ith(1, i)
    \/ Get(1, K1)
    \/ AddConst(NULL, K1, PointerConst, TRUE, 0)
    \/ \E data \in Buffers : AddBytes(NULL, K1, data, TRUE, 0)
    \/ \E str \in Strings : AddString(NULL, K1, str, FALSE, TRUE, 0)
    \/ AddComplex(NULL, K1, 2, 7, TYPEFCN, TRUE)
    \/ \E i \in 0..1 : Ith(NULL, i)
    \/ Get(NULL, K1)
    \/ Free(NULL, <<>>)
    \/ \E s \in {NULL, 1}, d \in {NULL, 2} :
            /\ s = NULL \/ d = NULL
            /\ Clone(s, d, TRUE, TRUE, <<>>, <<>>, 0)

SpecNull == Init /\ [][NextNull]_vars

\* C16 (as claimed): an insertion or ncproplistith called with a null list
\* returns an error status (< 0), never a success status.
C16_NullListIsInvalid ==
    (ret.op \in AddOps \cup {"ith"} /\ ret.l = NULL /\ ~aborted)
    => ret.stat < 0

\* C17 (as claimed): when ncproplistclone returned a status >= 0, the
\* destination holds as many properties as the source, and its i-th
\* property has the key and the sort of the i-th property of the source,
\* the same value if it is a constant, and the same type function and
\* userdata if it is complex.
C17_CloneSuccessCopiesAll ==
    ( /\ ret.op = "clone" /\ ret.stat >= 0 /\ ~aborted
      /\ ret.l \in Lists /\ ret.a \in Lists )
    => LET s == plist[ret.a]
           d == plist[ret.l]
       IN  /\ d.count = s.count
           /\ \A i \in 1..s.count :
                /\ i <= Len(d.properties)
                /\ d.properties[i].key = s.properties[i].key
                /\ d.properties[i].sort = s.properties[i].sort
                /\ s.properties[i].sort = NCP_CONST
                      => d.properties[i].value = s.properties[i].value
                /\ s.properties[i].sort = NCP_COMPLEX
                      => /\ d.properties[i].typefcn = s.properties[i].typefcn
                         /\ d.properties[i].userdata
                                = s.properties[i].userdata

\* C18: ncproplistclone with a null source or a null destination returns
\* NC_EINVAL and changes no list and no cell of the heap (nothing is
\* copied, released or reclaimed; a type function could only act on a cell).
C18_CloneNullIsInvalid ==
    [][( /\ ret'.op = "clone" /\ ~aborted'
         /\ ret'.l = NULL \/ ret'.a = NULL )
       => /\ ret'.stat = NC_EINVAL
          /\ plist' = plist
          /\ heap' = heap
      ]_vars

\* A list holding a complex property was cloned into a null destination.
C18_Witness ==
    /\ ret.op = "clone" /\ ~aborted
    /\ ret.a = 1 /\ ret.l = NULL
    /\ ret.stat = NC_EINVAL
    /\ plist[1].st = "live" /\ plist[1].count >= 1
    /\ \E i \in 1..plist[1].count : Prop(1, i).sort = NCP_COMPLEX
    /\ \A a \in Addrs : heap[a].rel = 0

\* C19: in every state the count of every list is at most its capacity
\* (the alloc field) and at most the number of properties its storage
\* holds; and no step lowers the capacity of a list, except the
\* ncproplistfree that frees it.
C19_CountWithinCapacity ==
    /\ [](\A l \in Lists :
            /\ plist[l].count <= plist[l].alloc
            /\ plist[l].count <= Len(plist[l].properties))
    /\ [][\A l \in Lists :
            plist'[l].st # "freed" => plist'[l].alloc >= plist[l].alloc
         ]_vars

\* A list grown beyond MINPROPS by its third insertion was cloned into a
\* zeroed list, which grew to hold the three properties.
C19_Witness ==
    /\ ret.op = "clone" /\ ret.stat = NC_NOERR /\ ~aborted
    /\ plist[1].count = 3 /\ plist[1].alloc > MINPROPS
    /\ plist[2].count = 3 /\ plist[2].alloc = 3

\* C20: ncproplistith of a non-null list returns NC_NOERR exactly when the
\* index is below the count, and then writes its outputs; for an index at
\* or beyond the count (any index on an empty list) it returns an error
\* status and writes no output; in both cases the list and the heap are
\* left as they were.
C20_IthInRange ==
    [][( ret'.op = "ith" /\ ret'.l \in Lists /\ ~aborted' )
       => LET pl == plist[ret'.l]
          IN  /\ (ret'.stat = NC_NOERR) <=> (ret'.a < pl.count)
              /\ ret'.a < pl.count => ret'.wrote
              /\ ret'.a >= pl.count
                    => /\ ret'.stat < 0
                       /\ ~ret'.wrote
              /\ plist' = plist
              /\ heap' = heap
      ]_vars

\* The index equal to the count of a list of two properties was refused.
C20_Witness ==
    /\ ret.op = "ith" /\ ret.l = 1 /\ ~aborted
    /\ plist[1].count = 2 /\ ret.a = 2
    /\ ret.stat = NC_EINVAL /\ ~ret.wrote

\* C21: ncproplistget returns NC_NOERR when a property of the list has the
\* key looked up and NC_EINVAL when none has, as the declaration of
\* ncproplistget documents its return value.
C21_GetMissIsEinval ==
    ( /\ ret.op = "get" /\ ret.l \in Lists /\ ~aborted )
    => LET pl == plist[ret.l]
           found == \E i \in 1..pl.count : pl.properties[i].key = ret.key
       IN  /\ found => ret.stat = NC_NOERR
           /\ ~found => ret.stat = NC_EINVAL

\* C22: an insertion that finds the list full (count = alloc) and succeeds
\* leaves storage for just the one new property: alloc = old count + 1.
C22_GrowthIsByOne ==
    [][\A l \in Lists :
        ( /\ ret'.op \in AddOps /\ ret'.l = l /\ ret'.stat = NC_NOERR
          /\ ~aborted'
          /\ plist[l].count = plist[l].alloc )
        => plist'[l].alloc = plist[l].count + 1
      ]_vars

\* The cells a step allocates.
NewCells == {a \in Addrs : heap[a].kind = "unalloc" /\ heap'[a].kind # "unalloc"}

\* A step is a clone of list s into list d that returned the negative result
\* of a type function's NCP_COPY: d counted no Complex property before, so
\* its reclamation called no type function, and the result is not one of
\* ncproplistclone's own.
CopyFailed(s, d) ==
    /\ ret'.op = "clone" /\ ret'.l = d /\ ret'.a = s /\ ~aborted'
    /\ ret'.stat < 0 /\ ret'.stat \notin {NC_EINVAL, NC_ENOMEM}
    /\ \A i \in 1..plist[d].count : Prop(d, i).sort # NCP_COMPLEX

\* C23: a clone that returned the failure of a type function's NCP_COPY
\* returned the function's result and stopped at the Complex property f it
\* failed on: slot f of the destination is the raw copy of the source's, and
\* every cell the clone allocated is the value of a slot before f, one cell
\* at most for each Bytes or Complex property before f. No cell was
\* allocated for f or for any property after it.
C23_CloneStopsAtFirstFailure ==
    [][\A s, d \in Lists :
        CopyFailed(s, d)
        => /\ ret'.stat \in FcnResults
           /\ \E f \in 1..plist[s].count :
                LET before == {j \in 1..(f - 1) : Prop(s, j).sort # NCP_CONST}
                IN  /\ Prop(s, f).sort = NCP_COMPLEX
                    /\ plist'[d].properties[f] = Prop(s, f)
                    /\ \A a \in NewCells :
                          \E j \in before : plist'[d].properties[j].value = a
                    /\ Cardinality(NewCells) <= Cardinality(before)
                    /\ \A j \in f..Len(plist'[d].properties) :
                          plist'[d].properties[j].value \notin NewCells
      ]_vars

\* A clone of a Complex property followed by a Bytes property failed on the
\* first: the second was not copied and the only cell allocated is the
\* object of the source.
C23_Witness ==
    /\ ret.op = "clone" /\ ret.l = 2 /\ ret.a = 1 /\ ~aborted
    /\ ret.stat < 0 /\ ret.stat \in FcnResults
    /\ plist[1].count = 2
    /\ Prop(1, 1).sort = NCP_COMPLEX /\ Prop(1, 2).sort = NCP_BYTES
    /\ plist[2].count = 0
    /\ Len(plist[2].properties) >= 2
    /\ plist[2].properties[1] = Prop(1, 1)
    /\ plist[2].properties[2] # Prop(1, 2)
    /\ {a \in Addrs : heap[a].kind # "unalloc"} = {Prop(1, 1).value}

(***************************************************************************)
(* SpecAlloc: list 1 is created and filled with constants and with buffers *)
(* of two bytes, and cloned into the created list 2 while malloc() may     *)
(* fail. Every other allocation succeeds, no type function is involved and *)
(* no Bytes property records more bytes than its buffer holds, so that a   *)
(* clone that does not return has written through a failed malloc().       *)
(***************************************************************************)
WideBuffers == {<<7, 8>>}

NextAlloc ==
    \/ \E l \in Lists : New(l, TRUE, TRUE)
    \/ \E ok \in ReallocResults(plist[1]), g \in SlotSizes(plist[1]) :
            AddConst(1, K1, PointerConst, ok, g)
    \/ \E data \in WideBuffers, ok \in ReallocResults(plist[1]),
          g \in SlotSizes(plist[1]) :
            AddBytes(1, K1, data, ok, g)
    \/ \E okr \in CloneReallocResults(plist[1], plist[2]),
          oc2 \in CopyResults(plist[1]) :
            Clone(1, 2, TRUE, okr, [i \in 1..plist[2].count |-> 0], oc2, 0)
    \/ \E h \in Lists : Free(h, [i \in 1..plist[h].count |-> 0])

SpecAlloc == Init /\ [][NextAlloc]_vars

\* C24: a clone during which the malloc() of a Bytes property's buffer
\* fails returns to its caller, with an error: it neither writes through
\* the null pointer (the process dies) nor returns success with a Bytes
\* property whose buffer was not allocated.
C24_CloneReportsAllocFailure ==
    ( /\ ret.op = "clone" /\ ret.l \in Lists /\ ret.a \in Lists )
    => /\ ~aborted
       /\ ret.stat >= 0
          => \A i \in 1..plist[ret.a].count :
                ( /\ Prop(ret.a, i).sort = NCP_BYTES
                  /\ Prop(ret.a, i).value # NULL )
                => plist[ret.l].properties[i].value # NULL

(***************************************************************************)
(* SpecReuse: list 1 is created, filled with Complex properties (whose     *)
(* type function is whatever the caller passes, a null pointer included)   *)
(* and with constants, emptied by a clone of the empty list 2 into it,     *)
(* filled again, and looked up by key and by index.                        *)
(***************************************************************************)
TypeFcns == {NULL, TYPEFCN}

NextReuse ==
    \/ \E l \in Lists : New(l, TRUE, TRUE)
    \/ \E fcn \in TypeFcns, ok \in ReallocResults(plist[1]) :
            AddComplex(1, K1, 2, 7, fcn, ok)
    \/ \E ok \in ReallocResults(plist[1]), g \in SlotSizes(plist[1]) :
            AddConst(1, K1, PointerConst, ok, g)
    \/ \E okr \in CloneReallocResults(plist[2], plist[1]),
          oc1 \in ReclaimResults(plist[1]),
          oc2 \in CopyResults(plist[2]) :
            Clone(2, 1, TRUE, okr, oc1, oc2, 0)
    \/ Get(1, K1)
    \/ Ith(1, 0)
    \/ \E h \in Lists : \E oc \in ReclaimResults(plist[h]) : Free(h, oc)

SpecReuse == Init /\ [][NextReuse]_vars

\* C25: the size ncproplistget and ncproplistith return for a Const
\* property is 0, whatever the slot of the property held before.
C25_ConstSizeIsZero ==
    ( /\ ret.op \in {"get", "ith"} /\ ret.l \in Lists /\ ~aborted
      /\ ret.stat = NC_NOERR /\ ret.wrote )
    => LET pl == plist[ret.l]
           M == {i \in 1..pl.count : pl.properties[i].key = ret.key}
           at == IF ret.op = "get" THEN Min(M) ELSE ret.a + 1
       IN  pl.properties[at].sort = NCP_CONST => ret.size = 0

\* C27: every counted Complex property of every list has a type function,
\* as ncproplistclear asserts, and no reclamation or clone stops on a null
\* one.
C27_ComplexHasTypeFcn ==
    /\ \A l \in Lists :
          plist[l].st = "live"
          => \A i \in 1..plist[l].count :
                Prop(l, i).sort = NCP_COMPLEX => Prop(l, i).typefcn # NULL
    /\ ~(aborted /\ ret.op \in {"free", "clone"})

\* C26: ncproplistfree called again on a list for which it has just
\* returned the failure of a type function returns, and releases no cell
\* that was released before: no Bytes buffer is freed twice and no Complex
\* value reclaimed twice.
C26_RetryFreeIsSafe ==
    [][\A l \in Lists :
        ( /\ ret.op = "free" /\ ret.l = l /\ ~aborted /\ ret.stat < 0
          /\ ret'.op = "free" /\ ret'.l = l )
        => /\ ~aborted'
           /\ \A a \in Addrs : heap[a].rel > 0 => heap'[a].rel = heap[a].rel
      ]_vars

C29_FailedCloneExposesNothing ==
    [][\A s, d \in Lists :
        CopyFailed(s, d)
        => /\ plist'[d].count = 0
           /\ \A key \in LookupKeys :
                 ncproplistget(plist'[d], key).stat = NC_ENOOBJECT
           /\ \A i \in 0..MaxCount :
                 /\ ncproplistith(plist'[d], i).stat = NC_EINVAL
                 /\ ~ncproplistith(plist'[d], i).wrote
      ]_vars

\* A clone of a constant followed by a Complex property failed on the
\* second: the first slot of the destination holds the constant under its
\* key, and the destination counts nothing.
C29_Witness ==
    /\ ret.op = "clone" /\ ret.l = 2 /\ ret.a = 1 /\ ~aborted
    /\ ret.stat < 0 /\ ret.stat \in FcnResults
    /\ plist[1].count = 2
    /\ Prop(1, 1).sort = NCP_CONST /\ Prop(1, 2).sort = NCP_COMPLEX
    /\ plist[2].count = 0
    /\ Len(plist[2].properties) >= 2
    /\ plist[2].properties[1].key = K1
    /\ plist[2].properties[1].value = PointerConst
    /\ ncproplistget(plist[2], K1).stat = NC_ENOOBJECT

\* C30: ncproplistclone(src, clone) with clone another list object than src
\* leaves src as it was (count, alloc and every property: key, sort, value,
\* size, userdata, typefcn) and leaves every cell src owns as it was, not
\* released and with the same bytes, whatever it returns.
C30_CloneLeavesSource ==
    [][\A s, d \in Lists :
        ( ret'.op = "clone" /\ ret'.l = d /\ ret'.a = s /\ s # d /\ ~aborted' )
        => /\ plist'[s] = plist[s]
           /\ \A a \in OwnedBy(plist[s]) : heap'[a] = heap[a]
      ]_vars

\* A constant and a buffer were cloned: list 2 counts both, and the buffer
\* of list 1 is not released and holds its byte.
C30_Witness ==
    /\ ret.op = "clone" /\ ret.l = 2 /\ ret.a = 1 /\ ~aborted
    /\ ret.stat = NC_NOERR
    /\ plist[1].count = 2 /\ plist[2].count = 2
    /\ Prop(1, 1).sort = NCP_CONST /\ Prop(1, 2).sort = NCP_BYTES
    /\ Prop(1, 2).value \in Addrs
    /\ Prop(2, 2).value \in Addrs \ {Prop(1, 2).value}
    /\ heap[Prop(1, 2).value] = [kind |-> "bytes", data |-> <<7>>, rel |-> 0]

====
